---------------------------- MODULE Spec2Model ----------------------------
(***************************************************************************)
(* Model of dummy_vs_no_brown_players.py: the seeded trial loop of the     *)
(* Monopoly simulation harness (two players, bankruptcy or a cap of 1000   *)
(* rounds), the recording of one result tuple per trial, and the buy()     *)
(* bookkeeping of the no-brown player variants.                            *)
(*                                                                         *)
(* Five specifications share the variables:                                *)
(*   Spec        the trial loop, play() outcomes and the shuffle free      *)
(*   FairSpec    Spec with weak fairness (the script runs to completion)   *)
(*   SpecSeeded  the trial loop driven by a seeded random source           *)
(*   SpecBuy     buy() calls of the two players on the roads of one game   *)
(*   SpecAgg     the aggregation and the windowed win counts of a result   *)
(*               list                                                     *)
(***************************************************************************)
EXTENDS Integers, Sequences, FiniteSets, TLC

\* ------------------------------------------------------------ bounds
\* number of trials of the for loop in Spec (range(0, 10000) in the source)
NSeeds == 2
\* SpecSeeded draws trial indices from 0..MaxSeed
MaxSeed == 2
\* SpecSeeded runs at most MaxRuns trials, in any order, repeats allowed
MaxRuns == 3

\* SpecBuy makes at most MaxBuys calls of buy()
MaxBuys == 3

\* SpecAgg analyses a result list of AggTrials trials (10000 in the source)
AggTrials == 4
\* the step of the prefix lengths in SpecAgg (1000 and 100 in the source)
WindowStep == 1

\* ------------------------------------------------------------ constants
\* the cap of full rounds of the while loop
MaxRounds == 1000

Players == {"player1", "player2"}

Other(p) == IF p = "player1" THEN "player2" ELSE "player1"

\* the two results random.shuffle can give for [player1, player2]
Orders == {<<"player1", "player2">>, <<"player2", "player1">>}

VARIABLES
    seed,           \* loop variable of `for seed in range(...)`; -1 before the loop
    runs,           \* number of trials started
    pc,             \* "idle" | "while" | "for" | "record"
    list_players,   \* the shuffled turn order
    idx_count,      \* round counter
    k,              \* position of the for loop over list_players (1, 2; 3 = exhausted)
    lost,           \* lost[p]: what p.has_lost() returns
    rng,            \* state of the random source
    list_results,   \* sequence of <<seed, label, starting player>>
    n_plays,        \* history: play() calls of each player in the current trial
    first_movers,   \* history: players that executed the first play() of a round
    build,          \* how player1 is built: "dummy" | "decorator" | "subclass" | "methodtype"
    cash,           \* cash[p]: p._cash
    bank_cash,      \* bank['cash']
    belongs_to,     \* belongs_to[r]: dict_roads[r]['belongs_to'], "None" when unowned
    list_owned_roads,           \* list_owned_roads[p]: p._list_owned_roads
    dict_owned_houses_hotels,   \* [p][r]: <<houses, hotels>>, << >> when r is no key
    mortgageable,   \* mortgageable[p]: p._properties_total_mortgageable_amount
    dict_owned_colors,          \* [p][color]: p._dict_owned_colors[color]
    raised,         \* the last buy() call raised the exception
    last_buy,       \* history: <<player, road>> of the last buy() call
    n_buys,         \* history: number of buy() calls
    apc,            \* analysis: "results" | "windows" | "done"
    report,         \* the counts of the aggregation cell, << >> before it ran
    list_agg,       \* sequence of <<seed, n_win_p1, n_win_p2, n_nobody_lost>>
    win_seed        \* loop variable of `for seed in range(0, N, step)`

trial == <<seed, runs, pc, list_players, idx_count, k, lost, rng, list_results,
           n_plays, first_movers>>

ledger == <<build, cash, bank_cash, belongs_to, list_owned_roads,
            dict_owned_houses_hotels, mortgageable, dict_owned_colors, raised,
            last_buy, n_buys>>

analysis == <<apc, report, list_agg, win_seed>>

vars == <<trial, ledger, analysis>>

\* ------------------------------------------------------------ random source
\* random.seed(s): the state depends on s alone
random_seed(s) == s % 31

\* one draw advances the state (a congruential generator)
NextRandom(r) == (7 * r + 3) % 31

\* random.shuffle(list_players): one draw decides the order
Shuffle(r) == IF r % 2 = 0 THEN <<"player1", "player2">>
                            ELSE <<"player2", "player1">>

\* the dice and cards of one play(), read from the random source, decide
\* whether the playing player goes bankrupt in this turn
Bankrupts(r) == r % 4 = 0

\* state of the random source when the trial is set up, given the trial index
\* and the state the previous trial left behind
TrialRandomState_NoReseed(s, r) == r

TrialRandomState(s, r) == random_seed(s)

\* ------------------------------------------------------------ players
\* fresh players: nobody has lost
NewLost == [p \in Players |-> FALSE]

\* p.play() with the outcome b (TRUE: p cannot meet an obligation in this turn)
play_ResetsOther(l, p, b) ==
    [q \in Players |-> IF q = p THEN l[p] \/ b ELSE FALSE]

play(l, p, b) == [l EXCEPT ![p] = l[p] \/ b]

\* the outcome labels
Labels == {"player1_lost", "player2_lost", "nobody_lost"}

\* ------------------------------------------------------------ trial loop
\* the condition of the while loop
LoopCondition_NoLossCheck(l, idx) == idx < MaxRounds

LoopCondition_OffByOne(l, idx) ==
    ~ l["player1"] /\ ~ l["player2"] /\ idx <= MaxRounds

LoopCondition(l, idx) ==
    ~ l["player1"] /\ ~ l["player2"] /\ idx < MaxRounds

\* the tuples appended to list_results after the loop
ResultTuples_NoElif(sd, l, lp) ==
    (IF l["player1"] THEN << <<sd, "player1_lost", lp[1]>> >> ELSE << >>)
    \o (IF l["player2"] THEN << <<sd, "player2_lost", lp[1]>> >>
                        ELSE << <<sd, "nobody_lost", lp[1]>> >>)

ResultTuples_FirstInOrder(sd, l, lp) ==
    IF l[lp[1]] THEN << <<sd, lp[1] \o "_lost", lp[1]>> >>
    ELSE IF l[lp[2]] THEN << <<sd, lp[2] \o "_lost", lp[1]>> >>
    ELSE << <<sd, "nobody_lost", lp[1]>> >>

ResultTuples_Player1Name(sd, l, lp) ==
    IF l["player1"] THEN << <<sd, "player1_lost", "player1">> >>
    ELSE IF l["player2"] THEN << <<sd, "player2_lost", "player1">> >>
    ELSE << <<sd, "nobody_lost", "player1">> >>

ResultTuples(sd, l, lp) ==
    IF l["player1"] THEN << <<sd, "player1_lost", lp[1]>> >>
    ELSE IF l["player2"] THEN << <<sd, "player2_lost", lp[1]>> >>
    ELSE << <<sd, "nobody_lost", lp[1]>> >>

\* ------------------------------------------------------------ board data
\* the roads of the game (a part of the board: two brown, three light blue and
\* two blue roads)
Roads == {"mediterranean_avenue", "baltic_avenue",
          "oriental_avenue", "vermont_avenue", "connecticut_avenue",
          "park_place", "boardwalk"}

\* dict_road_info['color']
Color(r) ==
    CASE r \in {"mediterranean_avenue", "baltic_avenue"} -> "brown"
      [] r \in {"oriental_avenue", "vermont_avenue", "connecticut_avenue"} -> "light_blue"
      [] OTHER -> "blue"

\* dict_road_info['price']
Price(r) ==
    CASE r \in {"mediterranean_avenue", "baltic_avenue"} -> 60
      [] r \in {"oriental_avenue", "vermont_avenue"} -> 100
      [] r = "connecticut_avenue" -> 120
      [] r = "park_place" -> 350
      [] OTHER -> 400

\* dict_road_info['mortgage_value']
MortgageValue(r) == Price(r) \div 2

\* the keys of _dict_owned_colors
Colors == {"brown", "light_blue", "purple", "orange", "red", "yellow", "green", "blue"}

\* the completion threshold of a color group
Threshold(c) == IF c \in {"brown", "blue"} THEN 2 ELSE 3

\* the cash of the bank of a new game
BankStartCash == 20000

\* the cash of a player of a new game
PlayerStartCash == 1500

\* the cash a player may hold when buy() is called
StartCash == {50, 100, 1500}

\* the ways player1 is built; player2 is always a Player
Builds == {"dummy", "decorator", "subclass", "methodtype"}

\* ------------------------------------------------------------ buy
\* The operators below take and return the state buy() reads and writes:
\* [cash, bank_cash, belongs_to, owned, houses, mort, colors, raised].

\* the loop counting the roads of `color` in _list_owned_roads
count_roads_of_color(owned_p, color) ==
    Cardinality({i \in DOMAIN owned_p : Color(owned_p[i]) = color})

\* the chain of per-color tests that sets _dict_owned_colors[color]
MarkOwnedColor_BlueThree(colors_p, color, count) ==
    IF color = "brown" /\ count = 2 THEN [colors_p EXCEPT ![color] = TRUE]
    ELSE IF color \in Colors \ {"brown"} /\ count = 3
         THEN [colors_p EXCEPT ![color] = TRUE]
    ELSE colors_p

MarkOwnedColor_ResetOthers(colors_p, color, count) ==
    [c \in Colors |-> /\ c = color
                      /\ \/ c \in {"brown", "blue"} /\ count = 2
                         \/ c \notin {"brown", "blue"} /\ count = 3]

MarkOwnedColor(colors_p, color, count) ==
    IF color = "brown" /\ count = 2 THEN [colors_p EXCEPT ![color] = TRUE]
    ELSE IF color = "light_blue" /\ count = 3 THEN [colors_p EXCEPT ![color] = TRUE]
    ELSE IF color = "purple" /\ count = 3 THEN [colors_p EXCEPT ![color] = TRUE]
    ELSE IF color = "orange" /\ count = 3 THEN [colors_p EXCEPT ![color] = TRUE]
    ELSE IF color = "red" /\ count = 3 THEN [colors_p EXCEPT ![color] = TRUE]
    ELSE IF color = "yellow" /\ count = 3 THEN [colors_p EXCEPT ![color] = TRUE]
    ELSE IF color = "green" /\ count = 3 THEN [colors_p EXCEPT ![color] = TRUE]
    ELSE IF color = "blue" /\ count = 2 THEN [colors_p EXCEPT ![color] = TRUE]
    ELSE colors_p

\* pay bank, exchange ownership, mortgage value
PayAndOwn_NoDebit(L, p, r) ==
    [L EXCEPT !.bank_cash = @ + Price(r),
              !.belongs_to[r] = p,
              !.owned[p] = Append(@, r),
              !.houses[p][r] = <<0, 0>>,
              !.mort[p] = @ + MortgageValue(r),
              !.raised = FALSE]

PayAndOwn_Prepend(L, p, r) ==
    [L EXCEPT !.bank_cash = @ + Price(r),
              !.cash[p] = @ - Price(r),
              !.belongs_to[r] = p,
              !.owned[p] = <<r>> \o @,
              !.houses[p][r] = <<0, 0>>,
              !.mort[p] = @ + MortgageValue(r),
              !.raised = FALSE]

PayAndOwn_NoOwner(L, p, r) ==
    [L EXCEPT !.bank_cash = @ + Price(r),
              !.cash[p] = @ - Price(r),
              !.owned[p] = Append(@, r),
              !.houses[p][r] = <<0, 0>>,
              !.mort[p] = @ + MortgageValue(r),
              !.raised = FALSE]

PayAndOwn(L, p, r) ==
    [L EXCEPT !.bank_cash = @ + Price(r),
              !.cash[p] = @ - Price(r),
              !.belongs_to[r] = p,
              !.owned[p] = Append(@, r),
              !.houses[p][r] = <<0, 0>>,
              !.mort[p] = @ + MortgageValue(r),
              !.raised = FALSE]

\* Player.buy: the acquisition of the ownership ledger
Player_buy(L, p, r) ==
    IF L.cash[p] < Price(r) THEN [L EXCEPT !.raised = TRUE]
    ELSE LET A == PayAndOwn(L, p, r)
         IN  IF count_roads_of_color(A.owned[p], Color(r)) >= Threshold(Color(r))
                THEN [A EXCEPT !.colors[p][Color(r)] = TRUE]
                ELSE A

\* _wrapper of modify_buy(Player.buy): the decorated buy of Player_no_brown
modify_buy_wrapper_NoDecline(L, p, r) == Player_buy(L, p, r)

modify_buy_wrapper(L, p, r) ==
    IF Color(r) = "brown" THEN [L EXCEPT !.raised = FALSE]
    ELSE Player_buy(L, p, r)

\* buy of the subclass Player_no_brown (the copied method)
Player_no_brown_buy_NoColorMark(L, p, r) ==
    IF Color(r) = "brown" THEN [L EXCEPT !.raised = FALSE]
    ELSE IF L.cash[p] < Price(r) THEN [L EXCEPT !.raised = TRUE]
    ELSE PayAndOwn(L, p, r)

Player_no_brown_buy(L, p, r) ==
    IF Color(r) = "brown" THEN [L EXCEPT !.raised = FALSE]
    ELSE IF L.cash[p] < Price(r) THEN [L EXCEPT !.raised = TRUE]
    ELSE LET A == PayAndOwn(L, p, r)
         IN  [A EXCEPT !.colors[p] =
                 MarkOwnedColor(@, Color(r), count_roads_of_color(A.owned[p], Color(r)))]

\* buy_new, bound to player1 with types.MethodType
buy_new_NoFundsCheck(L, p, r) ==
    IF Color(r) = "brown" THEN [L EXCEPT !.raised = FALSE]
    ELSE LET A == PayAndOwn(L, p, r)
         IN  [A EXCEPT !.colors[p] =
                 MarkOwnedColor(@, Color(r), count_roads_of_color(A.owned[p], Color(r)))]

buy_new_FundsCheckFirst(L, p, r) ==
    IF L.cash[p] < Price(r) THEN [L EXCEPT !.raised = TRUE]
    ELSE IF Color(r) = "brown" THEN [L EXCEPT !.raised = FALSE]
    ELSE LET A == PayAndOwn(L, p, r)
         IN  [A EXCEPT !.colors[p] =
                 MarkOwnedColor(@, Color(r), count_roads_of_color(A.owned[p], Color(r)))]

buy_new(L, p, r) ==
    IF Color(r) = "brown" THEN [L EXCEPT !.raised = FALSE]
    ELSE IF L.cash[p] < Price(r) THEN [L EXCEPT !.raised = TRUE]
    ELSE LET A == PayAndOwn(L, p, r)
         IN  [A EXCEPT !.colors[p] =
                 MarkOwnedColor(@, Color(r), count_roads_of_color(A.owned[p], Color(r)))]

\* p.buy(dict_road_info, road_name) for the way p is built
buy(b, L, p, r) ==
    IF p = "player1" /\ b = "decorator" THEN modify_buy_wrapper(L, p, r)
    ELSE IF p = "player1" /\ b = "subclass" THEN Player_no_brown_buy(L, p, r)
    ELSE IF p = "player1" /\ b = "methodtype" THEN buy_new(L, p, r)
    ELSE Player_buy(L, p, r)

\* ------------------------------------------------------------ actions
InitTrial ==
    /\ seed = -1
    /\ runs = 0
    /\ pc = "idle"
    /\ list_players = <<"player1", "player2">>
    /\ idx_count = 0
    /\ k = 1
    /\ lost = NewLost
    /\ rng = 0
    /\ list_results = << >>
    /\ n_plays = [p \in Players |-> 0]
    /\ first_movers = {}

\* bank, roads and players as get_bank(), get_roads() and Player() return them
NewLedger(b, c) ==
    /\ build = b
    /\ cash = c
    /\ bank_cash = BankStartCash
    /\ belongs_to = [r \in Roads |-> "None"]
    /\ list_owned_roads = [p \in Players |-> << >>]
    /\ dict_owned_houses_hotels = [p \in Players |-> [r \in Roads |-> << >>]]
    /\ mortgageable = [p \in Players |-> 0]
    /\ dict_owned_colors = [p \in Players |-> [c1 \in Colors |-> FALSE]]
    /\ raised = FALSE
    /\ last_buy = << >>
    /\ n_buys = 0

\* nothing is analysed yet
NewAnalysis ==
    /\ apc = "results"
    /\ report = << >>
    /\ list_agg = << >>
    /\ win_seed = 0

Init ==
    /\ InitTrial
    /\ NewLedger("dummy", [p \in Players |-> PlayerStartCash])
    /\ NewAnalysis

\* a game in which the players hold any of the cash amounts of StartCash
InitBuy ==
    /\ InitTrial
    /\ \E b \in Builds, c \in [Players -> StartCash] : NewLedger(b, c)
    /\ NewAnalysis

\* set the game of trial s: fresh bank, board and players, shuffled order
Setup(s, order) ==
    /\ pc = "idle"
    /\ seed' = s
    /\ runs' = runs + 1
    /\ lost' = NewLost
    /\ list_players' = order
    /\ idx_count' = 0
    /\ k' = 1
    /\ pc' = "while"
    /\ n_plays' = [p \in Players |-> 0]
    /\ first_movers' = {}
    /\ UNCHANGED <<list_results, ledger, analysis>>

\* next iteration of `for seed in range(0, NSeeds)`, the shuffle left free
StartTrial ==
    /\ seed + 1 < NSeeds
    /\ \E order \in Orders : Setup(seed + 1, order)
    /\ UNCHANGED rng

\* the trial of index s run with the random source seeded from s
StartTrialSeeded ==
    /\ runs < MaxRuns
    /\ \E s \in 0..MaxSeed :
          LET r0 == TrialRandomState(s, rng)
          IN  /\ Setup(s, Shuffle(r0))
              /\ rng' = NextRandom(r0)

\* evaluation of the while condition
LoopCheck ==
    /\ pc = "while"
    /\ IF LoopCondition(lost, idx_count)
          THEN pc' = "for" /\ k' = 1
          ELSE pc' = "record" /\ k' = k
    /\ UNCHANGED <<seed, runs, list_players, idx_count, lost, rng, list_results,
                   n_plays, first_movers, ledger, analysis>>

\* one iteration of `for player in list_players: player.play()`
Play_BreakOnLoss(b) ==
    /\ pc = "for"
    /\ k <= 2
    /\ LET p == list_players[k]
           skip == lost["player1"] \/ lost["player2"]
       IN  /\ lost' = IF skip THEN lost ELSE play(lost, p, b)
           /\ n_plays' = IF skip THEN n_plays ELSE [n_plays EXCEPT ![p] = @ + 1]
           /\ first_movers' = IF k = 1 THEN first_movers \cup {p} ELSE first_movers
    /\ k' = k + 1
    /\ UNCHANGED <<seed, runs, pc, list_players, idx_count, list_results, ledger, analysis>>

Play(b) ==
    /\ pc = "for"
    /\ k <= 2
    /\ LET p == list_players[k]
       IN  /\ lost' = play(lost, p, b)
           /\ n_plays' = [n_plays EXCEPT ![p] = @ + 1]
           /\ first_movers' = IF k = 1 THEN first_movers \cup {p} ELSE first_movers
    /\ k' = k + 1
    /\ UNCHANGED <<seed, runs, pc, list_players, idx_count, list_results, ledger, analysis>>

PlayFree ==
    /\ \E b \in BOOLEAN : Play(b)
    /\ UNCHANGED rng

PlaySeeded ==
    /\ Play(Bankrupts(rng))
    /\ rng' = NextRandom(rng)

\* the for loop is exhausted: idx_count += 1
EndRound ==
    /\ pc = "for"
    /\ k = 3
    /\ idx_count' = idx_count + 1
    /\ pc' = "while"
    /\ UNCHANGED <<seed, runs, list_players, k, lost, rng, list_results, n_plays,
                   first_movers, ledger, analysis>>

\* the if / elif / else after the loop
Record ==
    /\ pc = "record"
    /\ list_results' = list_results \o ResultTuples(seed, lost, list_players)
    /\ pc' = "idle"
    /\ UNCHANGED <<seed, runs, list_players, idx_count, k, lost, rng, n_plays,
                   first_movers, ledger, analysis>>

Next == StartTrial \/ LoopCheck \/ PlayFree \/ EndRound \/ Record

Spec == Init /\ [][Next]_vars

\* the script is a sequential program: it keeps running while a step is possible
FairSpec == Spec /\ WF_vars(Next)

NextSeeded == StartTrialSeeded \/ LoopCheck \/ PlaySeeded \/ EndRound \/ Record

SpecSeeded == Init /\ [][NextSeeded]_vars

\* the state buy() reads and writes
Ledger ==
    [cash |-> cash, bank_cash |-> bank_cash, belongs_to |-> belongs_to,
     owned |-> list_owned_roads, houses |-> dict_owned_houses_hotels,
     mort |-> mortgageable, colors |-> dict_owned_colors, raised |-> raised]

\* p lands on the unowned road r and p.buy(dict_roads[r], r) is called
BuyCall(p, r) ==
    /\ n_buys < MaxBuys
    /\ belongs_to[r] = "None"
    /\ LET R == buy(build, Ledger, p, r)
       IN  /\ cash' = R.cash
           /\ bank_cash' = R.bank_cash
           /\ belongs_to' = R.belongs_to
           /\ list_owned_roads' = R.owned
           /\ dict_owned_houses_hotels' = R.houses
           /\ mortgageable' = R.mort
           /\ dict_owned_colors' = R.colors
           /\ raised' = R.raised
    /\ last_buy' = <<p, r>>
    /\ n_buys' = n_buys + 1
    /\ UNCHANGED <<trial, build, analysis>>

NextBuy == \E p \in Players, r \in Roads : BuyCall(p, r)

SpecBuy == InitBuy /\ [][NextBuy]_vars

\* ------------------------------------------------------------ analysis
\* df[df.lost_player == lab].shape[0]
CountLabel(res, lab) ==
    Cardinality({i \in DOMAIN res : res[i][2] = lab})

\* df[(df.starting_player == name) & (df.lost_player != 'nobody_lost')].shape[0]
CountStart_NoFilter(res, name) ==
    Cardinality({i \in DOMAIN res : res[i][3] = name})

CountStart(res, name) ==
    Cardinality({i \in DOMAIN res : res[i][3] = name /\ res[i][2] # "nobody_lost"})

\* the counts printed by the aggregation cell and the arguments of binomtest
Aggregation(res) ==
    LET n_lost_p1 == CountLabel(res, "player1_lost")
        n_lost_p2 == CountLabel(res, "player2_lost")
    IN  [n_lost_p1 |-> n_lost_p1,
         n_lost_p2 |-> n_lost_p2,
         count_start_p1 |-> CountStart(res, "player1"),
         count_start_p2 |-> CountStart(res, "player2"),
         n_nobody_lost |-> CountLabel(res, "nobody_lost"),
         binom_k |-> n_lost_p1,
         binom_n |-> n_lost_p1 + n_lost_p2]

\* df_res.iloc[:n]
iloc_From(res, n) ==
    IF n >= Len(res) THEN << >> ELSE SubSeq(res, n + 1, Len(res))

iloc(res, n) ==
    IF n >= Len(res) THEN res ELSE SubSeq(res, 1, n)

\* the tuple appended to list_agg for the prefix length sd
WindowSnapshot(res, sd) ==
    LET df_tmp == iloc(res, sd)
    IN  <<sd, CountLabel(df_tmp, "player2_lost"), CountLabel(df_tmp, "player1_lost"),
          CountLabel(df_tmp, "nobody_lost")>>

\* the results a run of AggTrials trials can leave in list_results
ResultLists ==
    [1..AggTrials -> Labels \X Players]

\* the trials are over: list_results holds one tuple per seed
InitAgg ==
    /\ seed = AggTrials - 1
    /\ runs = AggTrials
    /\ pc = "idle"
    /\ list_players = <<"player1", "player2">>
    /\ idx_count = 0
    /\ k = 1
    /\ lost = NewLost
    /\ rng = 0
    /\ \E f \in ResultLists :
          list_results = [i \in 1..AggTrials |-> <<i - 1, f[i][1], f[i][2]>>]
    /\ n_plays = [p \in Players |-> 0]
    /\ first_movers = {}
    /\ NewLedger("dummy", [p \in Players |-> PlayerStartCash])
    /\ NewAnalysis

\* the aggregation cell: the counts and the binomial test
Aggregate ==
    /\ apc = "results"
    /\ report' = Aggregation(list_results)
    /\ apc' = "windows"
    /\ list_agg' = << >>
    /\ win_seed' = 0
    /\ UNCHANGED <<trial, ledger>>

\* one iteration of `for seed in range(0, AggTrials, WindowStep)`
Window ==
    /\ apc = "windows"
    /\ win_seed < AggTrials
    /\ list_agg' = Append(list_agg, WindowSnapshot(list_results, win_seed))
    /\ win_seed' = win_seed + WindowStep
    /\ UNCHANGED <<trial, ledger, apc, report>>

\* the range is exhausted
EndWindows ==
    /\ apc = "windows"
    /\ win_seed >= AggTrials
    /\ apc' = "done"
    /\ UNCHANGED <<trial, ledger, report, list_agg, win_seed>>

NextAgg == Aggregate \/ Window \/ EndWindows

SpecAgg == InitAgg /\ [][NextAgg]_vars

\* ------------------------------------------------------------ shared predicates
AnyLost == lost["player1"] \/ lost["player2"]

\* the trial of the current seed has recorded its result
TrialDone == pc = "idle" /\ runs > 0

LastResult == list_results[Len(list_results)]


\* ------------------------------------------------------------ trial claims
\* a play() call is executed in this step
PlayExecuted == \E p \in Players : n_plays'[p] # n_plays[p]

\* C1 as stated: has_lost() is re-checked after every single play(), so that
\* once a player has lost no further play() is executed in the trial.
C1_NoPlayAfterLoss ==
    [][(AnyLost /\ pc = "for") => ~ PlayExecuted]_vars

\* C1 amended: has_lost() is re-checked only after each full round. No round
\* starts once a player has lost, and the only play() executed after a loss is
\* the turn of the second player of the round in which the first player of the
\* turn order lost.
C1_NoRoundAfterLoss ==
    /\ [](pc = "for" /\ k = 1 => ~ AnyLost)
    /\ [][(AnyLost /\ pc = "for" /\ PlayExecuted) =>
             /\ k = 2
             /\ lost[list_players[1]]
             /\ ~ lost[list_players[2]]
             /\ n_plays'[list_players[2]] = idx_count + 1
             /\ n_plays'[list_players[1]] = idx_count + 1]_vars

\* the first player of the turn order lost in its turn and the second player
\* has played its turn of that round all the same
C1_Witness ==
    /\ pc = "for" /\ k = 3
    /\ lost[list_players[1]]
    /\ n_plays[list_players[2]] = idx_count + 1

\* number of trials whose loop has been left and whose result is recorded
TrialsRecorded == IF pc = "idle" THEN runs ELSE runs - 1

\* C2: every trial records exactly one result tuple, and its label is one of
\* player1_lost, player2_lost, nobody_lost.
C2_OneOutcomePerTrial ==
    /\ Len(list_results) = TrialsRecorded
    /\ \A i \in DOMAIN list_results :
          /\ list_results[i][1] = i - 1
          /\ list_results[i][2] \in Labels

\* two trials are recorded, the second left its loop with both players lost
C2_Witness ==
    /\ TrialDone
    /\ Len(list_results) = 2
    /\ lost["player1"] /\ lost["player2"]

\* C3: nobody_lost is recorded if and only if 1000 full rounds were played and
\* neither player has lost; a player who is the only one bankrupt, also in the
\* 1000th round, is recorded as the loser.
C3_UndecidedIffCap ==
    TrialDone =>
        /\ LastResult[2] = "nobody_lost" <=> (idx_count = MaxRounds /\ ~ AnyLost)
        /\ \A p \in Players :
              (lost[p] /\ ~ lost[Other(p)]) => LastResult[2] = p \o "_lost"

\* a first trial ended undecided and in the second trial player2 became
\* bankrupt during the 1000th round
C3_Witness ==
    /\ TrialDone
    /\ Len(list_results) = 2
    /\ list_results[1][2] = "nobody_lost"
    /\ idx_count = MaxRounds
    /\ lost["player2"] /\ ~ lost["player1"]
    /\ LastResult[2] = "player2_lost"

\* C4: when both players have lost at the exit of the loop the recorded
\* outcome is player1_lost, whoever moved first.
C4_Player1CheckedFirst ==
    (TrialDone /\ lost["player1"] /\ lost["player2"]) =>
        LastResult[2] = "player1_lost"

\* both lost in a trial that player2 started
C4_Witness ==
    /\ TrialDone
    /\ lost["player1"] /\ lost["player2"]
    /\ list_players[1] = "player2"
    /\ LastResult = <<seed, "player1_lost", "player2">>

\* C5: the round counter starts at 0, grows by exactly 1 per full round, never
\* exceeds 1000, and every trial reaches its recorded outcome.
C5_TrialTerminates ==
    /\ [](idx_count \in 0..MaxRounds)
    /\ [][idx_count' # idx_count =>
             \/ pc = "idle" /\ idx_count' = 0
             \/ /\ idx_count' = idx_count + 1
                /\ \A p \in Players : n_plays[p] = idx_count + 1]_vars
    /\ [](pc = "while" => <>TrialDone)

\* a trial has ended after the full 1000 rounds
C5_Witness ==
    TrialDone /\ idx_count = MaxRounds /\ ~ AnyLost

\* C6: the turn order is the same in every round of a trial, and the name
\* stored in the result tuple is the player who executed the first play() of
\* every round.
C6_FirstMoverRecorded ==
    /\ pc # "idle" => first_movers \subseteq {list_players[1]}
    /\ TrialDone => first_movers = {LastResult[3]}

\* a trial of several rounds that player2 started is recorded
C6_Witness ==
    /\ TrialDone
    /\ idx_count >= 2
    /\ first_movers = {"player2"}
    /\ LastResult[3] = "player2"

\* C7: two runs of the trial of the same index record the same outcome label
\* and the same starting player, whatever trials ran before.
C7_Determinism ==
    \A i, j \in DOMAIN list_results :
        list_results[i][1] = list_results[j][1] => list_results[i] = list_results[j]

\* the same index was run twice with a trial of another index in between
C7_Witness ==
    /\ Len(list_results) = 3
    /\ list_results[1][1] = list_results[3][1]
    /\ list_results[2][1] # list_results[1][1]
    /\ list_results[2][2] # list_results[1][2]

\* ------------------------------------------------------------ buy claims
\* this step is a call of buy()
BuyStep == n_buys' = n_buys + 1

\* p is built as a no-brown player and r is a road it declines
Declined(p, r) == p = "player1" /\ build # "dummy" /\ Color(r) = "brown"

LedgerUnchanged ==
    UNCHANGED <<cash, bank_cash, belongs_to, list_owned_roads,
                dict_owned_houses_hotels, mortgageable, dict_owned_colors>>

TotalCash == bank_cash + cash["player1"] + cash["player2"]

\* C8: an acquisition attempted (a buy of a road the player does not decline)
\* with cash strictly below the price raises the exception and leaves cash,
\* bank cash, owner, owned list, improvement map, mortgageable total and
\* completed colors unchanged; with cash equal to the price it succeeds.
C8_InsufficientFundsNoChange ==
    [][\A p \in Players, r \in Roads :
          (BuyStep /\ last_buy' = <<p, r>> /\ ~ Declined(p, r)) =>
              /\ cash[p] < Price(r) => (raised' /\ LedgerUnchanged)
              /\ cash[p] = Price(r) =>
                    (~ raised' /\ belongs_to'[r] = p /\ cash'[p] = 0)]_vars

\* player1, built with MethodType, bought a road with cash equal to its price
\* and its next buy, with cash 0, raised
C8_Witness ==
    /\ build = "methodtype"
    /\ raised
    /\ last_buy = <<"player1", "vermont_avenue">>
    /\ cash["player1"] = 0
    /\ belongs_to["oriental_avenue"] = "player1"
    /\ belongs_to["vermont_avenue"] = "None"

\* C9: a successful acquisition adds the price to the bank's cash, takes it
\* from the buyer's cash and leaves the other player's cash alone; the total
\* of bank and player cash never changes.
C9_LedgerConservation ==
    /\ [][\A p \in Players, r \in Roads :
            (BuyStep /\ last_buy' = <<p, r>> /\ ~ raised' /\ ~ Declined(p, r)) =>
                /\ bank_cash' = bank_cash + Price(r)
                /\ cash'[p] = cash[p] - Price(r)
                /\ cash'[Other(p)] = cash[Other(p)]]_vars
    /\ [][TotalCash' = TotalCash]_vars

\* both players have bought a road and the bank holds both prices
C9_Witness ==
    /\ build = "subclass"
    /\ belongs_to["park_place"] = "player1"
    /\ belongs_to["boardwalk"] = "player2"
    /\ bank_cash = BankStartCash + Price("park_place") + Price("boardwalk")

\* C10: a successful acquisition sets the owner, appends the road to the end
\* of the buyer's owned list, sets its improvement level to (0,0), adds its
\* mortgage value to the buyer's mortgageable total, and changes nothing else
\* but the two cash balances and possibly the completed flag of the road's
\* color for the buyer.
C10_AcquisitionEffect ==
    [][\A p \in Players, r \in Roads :
          (BuyStep /\ last_buy' = <<p, r>> /\ ~ Declined(p, r) /\ cash[p] >= Price(r)) =>
              /\ ~ raised'
              /\ belongs_to' = [belongs_to EXCEPT ![r] = p]
              /\ list_owned_roads' = [list_owned_roads EXCEPT ![p] = Append(@, r)]
              /\ dict_owned_houses_hotels' =
                    [dict_owned_houses_hotels EXCEPT ![p][r] = <<0, 0>>]
              /\ mortgageable' = [mortgageable EXCEPT ![p] = @ + MortgageValue(r)]
              /\ cash'[Other(p)] = cash[Other(p)]
              /\ \A q \in Players, c \in Colors :
                    (q # p \/ c # Color(r)) =>
                        dict_owned_colors'[q][c] = dict_owned_colors[q][c]]_vars

\* player1, built with MethodType, owns two roads in the order it bought them
C10_Witness ==
    /\ build = "methodtype"
    /\ list_owned_roads["player1"] = <<"boardwalk", "oriental_avenue">>
    /\ belongs_to["boardwalk"] = "player1"
    /\ dict_owned_houses_hotels["player1"]["oriental_avenue"] = <<0, 0>>
    /\ mortgageable["player1"] =
          MortgageValue("boardwalk") + MortgageValue("oriental_avenue")

\* ------------------------------------------------------------ ownership claims
\* the number of roads of color c in p's owned list
OwnedOfColor(p, c) ==
    Cardinality({i \in DOMAIN list_owned_roads[p] : Color(list_owned_roads[p][i]) = c})

\* C11: a color group is marked complete for a player if and only if the
\* player's owned list holds at least threshold(color) roads of that color
\* (brown 2, blue 2, the others 3).
C11_MonopolyCorrect ==
    \A p \in Players, c \in Colors :
        dict_owned_colors[p][c] <=>
            OwnedOfColor(p, c) >= (IF c \in {"brown", "blue"} THEN 2 ELSE 3)

\* player1, built as the subclass, holds the three light blue roads and the
\* group is marked; player2 would hold none
C11_Witness ==
    /\ build = "subclass"
    /\ OwnedOfColor("player1", "light_blue") = 3
    /\ dict_owned_colors["player1"]["light_blue"]
    /\ ~ dict_owned_colors["player1"]["blue"]

\* C12: a color group marked complete for a player stays marked across every
\* later buy of either player.
C12_MonopolyMonotonic ==
    [][\A p \in Players, c \in Colors :
          dict_owned_colors[p][c] => dict_owned_colors'[p][c]]_vars

\* player1, built with MethodType, completed blue and then bought a light
\* blue road
C12_Witness ==
    /\ build = "methodtype"
    /\ dict_owned_colors["player1"]["blue"]
    /\ Len(list_owned_roads["player1"]) = 3
    /\ Color(list_owned_roads["player1"][3]) = "light_blue"

\* C13: the no-brown player never owns a brown road, has none in its owned
\* list and never has brown marked complete.
C13_NoBrownOwned ==
    build # "dummy" =>
        /\ \A r \in Roads : Color(r) = "brown" => belongs_to[r] # "player1"
        /\ OwnedOfColor("player1", "brown") = 0
        /\ ~ dict_owned_colors["player1"]["brown"]

\* the decorated player1 landed on a brown road with cash above its price
C13_Witness ==
    /\ build = "decorator"
    /\ last_buy = <<"player1", "mediterranean_avenue">>
    /\ cash["player1"] >= Price("mediterranean_avenue")
    /\ belongs_to["mediterranean_avenue"] = "None"

\* C14: the no-brown buy called on a brown road raises nothing and changes
\* nothing, also with cash below the price; the road stays unowned.
C14_DeclineNoChange ==
    [][\A p \in Players, r \in Roads :
          (BuyStep /\ last_buy' = <<p, r>> /\ Declined(p, r)) =>
              /\ ~ raised'
              /\ LedgerUnchanged
              /\ belongs_to'[r] = "None"]_vars

\* player1, built with MethodType, declined a brown road with cash 50
C14_Witness ==
    /\ build = "methodtype"
    /\ last_buy = <<"player1", "baltic_avenue">>
    /\ cash["player1"] < Price("baltic_avenue")
    /\ ~ raised
    /\ belongs_to["baltic_avenue"] = "None"

\* the players whose owned list contains r
Holders(r) ==
    {p \in Players : \E i \in DOMAIN list_owned_roads[p] : list_owned_roads[p][i] = r}

\* C15: a road is in at most one player's owned list, at most once, and its
\* owner field names exactly the player whose list contains it.
C15_OwnershipConsistent ==
    \A r \in Roads :
        /\ Cardinality(Holders(r)) <= 1
        /\ \A p \in Players :
              Cardinality({i \in DOMAIN list_owned_roads[p] :
                              list_owned_roads[p][i] = r}) <= 1
        /\ \A p \in Players : belongs_to[r] = p <=> p \in Holders(r)
        /\ belongs_to[r] = "None" <=> Holders(r) = {}

\* both players own roads: player1 two, player2 one
C15_Witness ==
    /\ build = "subclass"
    /\ Len(list_owned_roads["player1"]) = 2
    /\ Len(list_owned_roads["player2"]) = 1
    /\ belongs_to["mediterranean_avenue"] = "player2"

\* ------------------------------------------------------------ round claims
\* C18: once has_lost() is true for a player it stays true through every later
\* play() of the trial, and the player recorded as the loser has lost when the
\* loop is left.
C18_BankruptcyAbsorbing ==
    /\ [][\A p \in Players : (lost[p] /\ pc # "idle") => lost'[p]]_vars
    /\ [](TrialDone => \A p \in Players : LastResult[2] = p \o "_lost" => lost[p])

\* the first player of the turn order lost in a later round, the second
\* player played after it, and the first player is recorded as the loser
C18_Witness ==
    /\ TrialDone
    /\ idx_count >= 2
    /\ lost[list_players[1]] /\ ~ lost[list_players[2]]
    /\ n_plays[list_players[2]] = idx_count
    /\ LastResult[2] = list_players[1] \o "_lost"

\* C20: at every loop check and at the end of the trial both players have
\* executed as many play() calls as the round counter says; the second player
\* of the turn order takes its turn of a round also when the first player has
\* lost in that round.
C20_FullRounds ==
    /\ (pc \in {"while", "record"} \/ TrialDone) =>
          \A p \in Players : n_plays[p] = idx_count
    /\ (pc = "for" /\ k = 3) =>
          \A p \in Players : n_plays[p] = idx_count + 1
    /\ (pc = "for" /\ k = 2) =>
          /\ n_plays[list_players[1]] = idx_count + 1
          /\ n_plays[list_players[2]] = idx_count

\* a trial ended in the round in which player2, moving first, lost: player1
\* has played that round too
C20_Witness ==
    /\ TrialDone
    /\ list_players = <<"player2", "player1">>
    /\ lost["player2"] /\ ~ lost["player1"]
    /\ idx_count = 3
    /\ n_plays["player1"] = 3

\* ------------------------------------------------------------ analysis claims
\* the trials of the result list with the label lab
TrialsWith(lab) == {i \in DOMAIN list_results : list_results[i][2] = lab}

\* C16: the three outcome counts sum to the number of trials, the two
\* started-counts sum to the number of decided trials, and the binomial test
\* gets k = losses of player 1 and n = losses of player 1 + losses of
\* player 2, so that nobody_lost trials are in neither.
C16_AggregationPartitions ==
    apc # "results" =>
        /\ report.n_lost_p1 + report.n_lost_p2 + report.n_nobody_lost
              = Len(list_results)
        /\ report.count_start_p1 + report.count_start_p2
              = report.n_lost_p1 + report.n_lost_p2
        /\ report.binom_k = Cardinality(TrialsWith("player1_lost"))
        /\ report.binom_n = Len(list_results) - Cardinality(TrialsWith("nobody_lost"))
        /\ report.binom_n = report.n_lost_p1 + report.n_lost_p2

\* a result list with losses of both players and an undecided trial that
\* player1 started is aggregated
C16_Witness ==
    /\ apc = "done"
    /\ report.n_lost_p1 = 2
    /\ report.n_lost_p2 = 1
    /\ report.n_nobody_lost = 1
    /\ report.binom_n = 3
    /\ \E i \in DOMAIN list_results : list_results[i] = <<i - 1, "nobody_lost", "player1">>

\* C17: the snapshots have increasing prefix lengths, each of the three counts
\* is non-decreasing from one snapshot to the next, player-1 wins count the
\* player2_lost trials of the prefix and player-2 wins the player1_lost ones,
\* the three counts sum to the prefix length, and computing the snapshots
\* again from the result list gives the same sequence.
C17_WindowedCounts ==
    /\ Len(list_agg) <= AggTrials
    /\ \A i \in DOMAIN list_agg :
          LET n == list_agg[i][1]
          IN  /\ n = (i - 1) * WindowStep
              /\ list_agg[i][2] = Cardinality({t \in TrialsWith("player2_lost") : t <= n})
              /\ list_agg[i][3] = Cardinality({t \in TrialsWith("player1_lost") : t <= n})
              /\ list_agg[i][4] = Cardinality({t \in TrialsWith("nobody_lost") : t <= n})
              /\ list_agg[i][2] + list_agg[i][3] + list_agg[i][4] = n
              /\ list_agg[i] = WindowSnapshot(list_results, n)
    /\ \A i, j \in DOMAIN list_agg :
          i < j => /\ list_agg[i][1] < list_agg[j][1]
                   /\ list_agg[i][2] <= list_agg[j][2]
                   /\ list_agg[i][3] <= list_agg[j][3]
                   /\ list_agg[i][4] <= list_agg[j][4]

\* all snapshots are taken and each of the three counts has grown
C17_Witness ==
    /\ apc = "done"
    /\ Len(list_agg) = 4
    /\ list_agg[1] = <<0, 0, 0, 0>>
    /\ list_agg[4] = <<3, 1, 1, 1>>

\* ------------------------------------------------------------ build claims
\* C19: the decorated buy, the buy of the subclass and buy_new give the same
\* result for every state of player1 and every road it can land on: the same
\* decline of a brown road without any change, the same acquisition, the same
\* failure on insufficient cash.
C19_BuildsEquivalent ==
    \A r \in Roads :
        belongs_to[r] = "None" =>
            LET D == modify_buy_wrapper(Ledger, "player1", r)
                S == Player_no_brown_buy(Ledger, "player1", r)
                M == buy_new(Ledger, "player1", r)
            IN  /\ D = S
                /\ S = M
                /\ Color(r) = "brown" => M = [Ledger EXCEPT !.raised = FALSE]
                /\ (Color(r) # "brown" /\ cash["player1"] < Price(r)) =>
                      M = [Ledger EXCEPT !.raised = TRUE]
                /\ (Color(r) # "brown" /\ cash["player1"] >= Price(r)) =>
                      (M.belongs_to[r] = "player1" /\ ~ M.raised)

\* player1 holds park_place and can pay boardwalk: the acquisition completes
\* blue for each build
C19_Witness ==
    /\ list_owned_roads["player1"] = <<"park_place">>
    /\ belongs_to["boardwalk"] = "None"
    /\ cash["player1"] >= Price("boardwalk")
    /\ buy_new(Ledger, "player1", "boardwalk").colors["player1"]["blue"]
    /\ modify_buy_wrapper(Ledger, "player1", "boardwalk").colors["player1"]["blue"]
    /\ Player_no_brown_buy(Ledger, "player1", "boardwalk").owned["player1"]
          = <<"park_place", "boardwalk">>

=============================================================================
